---- MODULE Spec2Model ----
(***************************************************************************)
(* Model of the datastream client (src/src/stream_client.rs).              *)
(*                                                                         *)
(* The session is the StreamClient struct.  The socket is a byte stream:   *)
(* `wire` holds the frames the peer has sent that are not yet wholly read  *)
(* and `off` the number of bytes already read of the first of them, so     *)
(* the reader stands at a frame boundary exactly when off = 0.  Every      *)
(* handler that reads takes the frames the peer delivers while it runs as  *)
(* its input `inc`; a read_exact that asks for more bytes than the peer    *)
(* sent fails (the peer closed the socket).                                *)
(*                                                                         *)
(* Unsigned integers are naturals.  TLC's integers are 32 bits wide, so a  *)
(* decoded value of 2^24 or more is represented by Big: such a value is    *)
(* only ever compared with small numbers (sizes of buffers, known codes).  *)
(***************************************************************************)
EXTENDS Integers, Sequences, FiniteSets, TLC

VARIABLES
    conn,            \* "None" | "Some": StreamClient.conn
    connected,       \* StreamClient.connected
    streaming,       \* StreamClient.streaming
    started,         \* StreamClient.started
    from_stream,     \* StreamClient.from_stream
    total_entries,   \* StreamClient.total_entries
    wire,            \* frames sent by the peer on the current socket, not yet wholly read
    off,             \* bytes already read of Head(wire)
    pc,              \* where the client stands: "idle", "connecting", "start_header",
                     \* "start_start", "streaming", "aborted"
    caller,          \* who runs connect_server: "api" | "start"
    dials,           \* failed dials of the running connect_server
    overflow_checks, \* build profile: TRUE = arithmetic overflow panics, FALSE = it wraps
    seen_header,     \* total_entries of the last Header frame decoded, 0 if none yet
    out              \* what the last handler did and returned

vars == <<conn, connected, streaming, started, from_stream, total_entries,
          wire, off, pc, caller, dials, overflow_checks, seen_header, out>>

(***************************************************************************)
(* Bounds of the model.                                                    *)
(***************************************************************************)
MaxWire == 2
MaxDialFails == 2

Big == 256 * 256 * 256

(***************************************************************************)
(* Program constants.                                                      *)
(***************************************************************************)
HEADER_SIZE == 38
FIXED_SIZE_FILE_ENTRY == 17
FIXED_SIZE_RESULT_ENTRY == 9

PtPadding == 0
PtHeader == 1
PtData == 2
PtDataRsp == 254
PtResult == 255

CmdStart == 1
CmdStop == 2
CmdHeader == 3
CmdStartBookmark == 4
CmdEntry == 5
CmdBookmark == 6

CmdErrOK == 0
CmdErrBadFromEntry == 3

Sequencer == 1

(***************************************************************************)
(* Bytes.                                                                  *)
(***************************************************************************)
Take(s, k) == SubSeq(s, 1, k)
Drop(s, k) == SubSeq(s, k + 1, Len(s))

RECURSIVE Flatten(_)
Flatten(w) == IF w = <<>> THEN <<>> ELSE Head(w) \o Flatten(Tail(w))

\* u64::to_be_bytes / u32::to_be_bytes of a value below 2^24, w bytes wide
to_be_bytes(n, w) ==
    [i \in 1..w |-> IF w - i > 2 THEN 0 ELSE (n \div (256 ^ (w - i))) % 256]

\* BigEndian::read_u32 / read_u64 of the bytes b
read_uint(b) ==
    LET n == Len(b) IN
    IF \E i \in 1..(n - 3) : b[i] # 0
    THEN Big
    ELSE b[n - 2] * 65536 + b[n - 1] * 256 + b[n]

\* a - b on u32: [v |-> value, ovf |-> the subtraction overflowed]
sub_u32(a, b) ==
    IF a >= b
    THEN [v |-> IF a >= Big THEN Big ELSE a - b, ovf |-> FALSE]
    ELSE [v |-> Big, ovf |-> TRUE]

(***************************************************************************)
(* Entry/packet model.                                                     *)
(***************************************************************************)
\* variant: an unknown code is taken for an event
EntryTypeFrom_unknown_is_event(v) ==
    CASE v = 0   -> "NotFound"
      [] v = 176 -> "Bookmark"
      [] v = 1   -> "Event1"
      [] v = 2   -> "Event2"
      [] OTHER   -> "Event1"

EntryTypeFrom(v) ==
    CASE v = 0   -> "NotFound"
      [] v = 176 -> "Bookmark"
      [] v = 1   -> "Event1"
      [] v = 2   -> "Event2"
      [] OTHER   -> "NotFound"

StreamTypeFrom(v) == IF v = 1 THEN Sequencer ELSE Sequencer

\* variant: an unknown byte is taken for the start of a data entry
PacketTypeFrom_unknown_is_data(v) ==
    CASE v = 0   -> PtPadding
      [] v = 1   -> PtHeader
      [] v = 2   -> PtData
      [] v = 254 -> PtDataRsp
      [] v = 255 -> PtResult
      [] OTHER   -> PtData

PacketTypeFrom(v) ==
    CASE v = 0   -> PtPadding
      [] v = 1   -> PtHeader
      [] v = 2   -> PtData
      [] v = 254 -> PtDataRsp
      [] v = 255 -> PtResult
      [] OTHER   -> PtPadding

\* Default::default() of Entry, HeaderEntry
DefaultEntry ==
    [packet_type |-> 0, length |-> 0, entry_type |-> "NotFound", number |-> 0,
     data |-> <<>>]

DefaultHeader ==
    [packet_type |-> 0, head_length |-> 0, version |-> 0, system_id |-> 0,
     stream_type |-> Sequencer, total_length |-> 0, total_entries |-> 0]

NoResult ==
    [packet_type |-> 0, length |-> 0, error_num |-> 0, error_str |-> <<>>]

(***************************************************************************)
(* Wire codec.  A decoder returns [st, val]: st is "Ok", "Err" (an         *)
(* io::Error) or "Panic" (the thread panics).                              *)
(***************************************************************************)
decode_binary_to_header_entry(b) ==
    IF Len(b) # HEADER_SIZE
    THEN [st |-> "Err", val |-> DefaultHeader]
    ELSE [st |-> "Ok",
          val |-> [packet_type   |-> b[1],
                   head_length   |-> read_uint(SubSeq(b, 2, 5)),
                   version       |-> b[6],
                   system_id     |-> read_uint(SubSeq(b, 7, 14)),
                   stream_type   |-> StreamTypeFrom(read_uint(SubSeq(b, 15, 22))),
                   total_length  |-> read_uint(SubSeq(b, 23, 30)),
                   total_entries |-> read_uint(SubSeq(b, 31, 38))]]

decode_binary_to_entry(b, checks) ==
    IF Len(b) < FIXED_SIZE_FILE_ENTRY
    THEN [st |-> "Err", val |-> DefaultEntry]
    ELSE LET length == read_uint(SubSeq(b, 2, 5))
             data   == Drop(b, 17)
             d      == sub_u32(length, FIXED_SIZE_FILE_ENTRY)
         IN  IF d.ovf /\ checks
             THEN [st |-> "Panic", val |-> DefaultEntry]
             ELSE IF Len(data) # d.v
             THEN [st |-> "Err", val |-> DefaultEntry]
             ELSE [st |-> "Ok",
                   val |-> [packet_type |-> b[1],
                            length      |-> length,
                            entry_type  |-> EntryTypeFrom(read_uint(SubSeq(b, 6, 9))),
                            number      |-> read_uint(SubSeq(b, 10, 17)),
                            data        |-> data]]

\* indexes b[0], b[1..5], b[5..9] without a length check: a short slice panics
decode_binary_to_result_entry(b) ==
    IF Len(b) < 9
    THEN [st |-> "Panic", val |-> NoResult]
    ELSE [st |-> "Ok",
          val |-> [packet_type |-> b[1],
                   length      |-> read_uint(SubSeq(b, 2, 5)),
                   error_num   |-> read_uint(SubSeq(b, 6, 9)),
                   error_str   |-> Drop(b, 9)]]

\* stream_server.rs ResultEntry::from_bytes: the length checks of the entry
\* decoder, with the same unchecked subtraction
from_bytes(b, checks) ==
    IF Len(b) < FIXED_SIZE_RESULT_ENTRY
    THEN [st |-> "Err", val |-> NoResult]
    ELSE LET length    == read_uint(SubSeq(b, 2, 5))
             error_str == Drop(b, 9)
             d         == sub_u32(length, FIXED_SIZE_RESULT_ENTRY)
         IN  IF d.ovf /\ checks
             THEN [st |-> "Panic", val |-> NoResult]
             ELSE IF Len(error_str) # d.v
             THEN [st |-> "Err", val |-> NoResult]
             ELSE [st |-> "Ok",
                   val |-> [packet_type |-> b[1],
                            length      |-> length,
                            error_num   |-> read_uint(SubSeq(b, 6, 9)),
                            error_str   |-> error_str]]

(***************************************************************************)
(* Socket readers.  s is the bytes the socket still delivers; a reader     *)
(* returns [st, used, val]: used is the number of bytes it took from s.    *)
(***************************************************************************)
\* variant: only the fixed part of the result frame is read
read_result_entry_fixed_part(s) ==
    IF Len(s) < FIXED_SIZE_RESULT_ENTRY
    THEN [st |-> "Err", used |-> Len(s), val |-> NoResult]
    ELSE LET e == decode_binary_to_result_entry(Take(s, FIXED_SIZE_RESULT_ENTRY))
         IN  [st |-> e.st, used |-> FIXED_SIZE_RESULT_ENTRY, val |-> e.val]

read_result_entry(s) ==
    IF Len(s) < FIXED_SIZE_RESULT_ENTRY
    THEN [st |-> "Err", used |-> Len(s), val |-> NoResult]
    ELSE LET buffer == Take(s, FIXED_SIZE_RESULT_ENTRY)
             length == read_uint(SubSeq(buffer, 2, 5))
         IN  IF length < FIXED_SIZE_RESULT_ENTRY
             THEN [st |-> "Err", used |-> FIXED_SIZE_RESULT_ENTRY, val |-> NoResult]
             ELSE LET n == length - FIXED_SIZE_RESULT_ENTRY IN
                  IF Len(s) < FIXED_SIZE_RESULT_ENTRY + n
                  THEN [st |-> "Err", used |-> Len(s), val |-> NoResult]
                  ELSE LET e == decode_binary_to_result_entry(
                                    Take(s, FIXED_SIZE_RESULT_ENTRY + n))
                       IN  [st |-> e.st, used |-> FIXED_SIZE_RESULT_ENTRY + n,
                            val |-> e.val]

read_header_entry(s) ==
    IF Len(s) < HEADER_SIZE
    THEN [st |-> "Err", used |-> Len(s), val |-> DefaultHeader]
    ELSE LET h == decode_binary_to_header_entry(Take(s, HEADER_SIZE))
         IN  [st |-> h.st, used |-> HEADER_SIZE, val |-> h.val]

read_data_entry(s, checks) ==
    IF Len(s) < FIXED_SIZE_FILE_ENTRY - 1
    THEN [st |-> "Err", used |-> Len(s), val |-> DefaultEntry]
    ELSE LET buffer == <<PtDataRsp>> \o Take(s, FIXED_SIZE_FILE_ENTRY - 1)
             length == read_uint(SubSeq(buffer, 2, 5))
         IN  IF length < FIXED_SIZE_RESULT_ENTRY
             THEN [st |-> "Err", used |-> FIXED_SIZE_FILE_ENTRY - 1,
                   val |-> DefaultEntry]
             ELSE LET d == sub_u32(length, FIXED_SIZE_FILE_ENTRY) IN
                  IF d.ovf /\ checks
                  THEN [st |-> "Panic", used |-> FIXED_SIZE_FILE_ENTRY - 1,
                        val |-> DefaultEntry]
                  ELSE IF Len(s) < FIXED_SIZE_FILE_ENTRY - 1 + d.v
                  THEN [st |-> "Err", used |-> Len(s), val |-> DefaultEntry]
                  ELSE LET e == decode_binary_to_entry(
                                    buffer \o SubSeq(s, FIXED_SIZE_FILE_ENTRY,
                                                     FIXED_SIZE_FILE_ENTRY - 1 + d.v),
                                    checks)
                       IN  [st |-> e.st, used |-> FIXED_SIZE_FILE_ENTRY - 1 + d.v,
                            val |-> e.val]

\* variant: the packet-type byte is left on the socket
read_bookmark_entry_keeps_packet(s, checks) == read_data_entry(s, checks)

\* one packet byte (expect: a failed read panics), then read_data_entry
read_bookmark_entry(s, checks) ==
    IF Len(s) < 1
    THEN [st |-> "Panic", used |-> 0, val |-> DefaultEntry]
    ELSE LET e == read_data_entry(Drop(s, 1), checks)
         IN  [st |-> e.st, used |-> 1 + e.used, val |-> e.val]

(***************************************************************************)
(* Command execution.  exec_command returns what the call did:             *)
(*   res        "Ok", "ClientNotStarted", "InvalidCommand", "EntryNotFound",*)
(*              "BookmarkNotFound", or "Panic" (an expect/unwrap failed)   *)
(*   errcode    the server's error code the returned error carries, or     *)
(*              NoCode: InvalidCommand carries a fixed text only           *)
(*   tx         the bytes written to the socket                            *)
(*   used       the number of bytes read from the socket                   *)
(*   streaming, from_stream   the session fields after the call            *)
(*   header, entry            the pair returned on Ok                      *)
(*   re         the result frame decoded, got_re whether one was decoded   *)
(*   decoded    the follow-up data frame decoded, got_entry whether        *)
(***************************************************************************)
NoCode == -1

\* variant: the stream type is not sent
CommandRequest_without_stream_type(cmd, from_entry, from_bookmark) ==
    to_be_bytes(cmd, 8) \o
    (CASE cmd \in {CmdStart, CmdEntry} -> to_be_bytes(from_entry, 8)
       [] cmd \in {CmdStartBookmark, CmdBookmark} ->
              to_be_bytes(Len(from_bookmark), 4) \o from_bookmark
       [] OTHER -> <<>>)

CommandRequest(cmd, from_entry, from_bookmark) ==
    to_be_bytes(cmd, 8) \o to_be_bytes(Sequencer, 8) \o
    (CASE cmd = CmdStart -> to_be_bytes(from_entry, 8)
       [] cmd = CmdStartBookmark ->
              to_be_bytes(Len(from_bookmark), 4) \o from_bookmark
       [] cmd = CmdEntry -> to_be_bytes(from_entry, 8)
       [] cmd = CmdBookmark ->
              to_be_bytes(Len(from_bookmark), 4) \o from_bookmark
       [] OTHER -> <<>>)

\* the fields of the session exec_command reads
Self ==
    [conn |-> conn, connected |-> connected, streaming |-> streaming,
     from_stream |-> from_stream, checks |-> overflow_checks]

CmdBase(self) ==
    [res |-> "Ok", errcode |-> NoCode, tx |-> <<>>, used |-> 0,
     streaming |-> self.streaming, from_stream |-> self.from_stream,
     header |-> DefaultHeader, entry |-> DefaultEntry,
     re |-> NoResult, got_re |-> FALSE,
     decoded |-> DefaultEntry, got_entry |-> FALSE]

\* exec_command once the connected check has passed
exec_connected(self, cmd, from_entry, from_bookmark, s) ==
    IF self.conn = "None"
    THEN [CmdBase(self) EXCEPT !.res = "Panic"]
    ELSE
    LET sent == [CmdBase(self) EXCEPT !.tx = CommandRequest(cmd, from_entry, from_bookmark)]
        re   == read_result_entry(s)
    IN
    IF re.st # "Ok"
    THEN [sent EXCEPT !.res = "Panic", !.used = re.used]
    ELSE
    LET got == [sent EXCEPT !.used = re.used, !.re = re.val, !.got_re = TRUE]
        s2  == Drop(s, re.used)
    IN
    IF re.val.error_num # CmdErrOK
    THEN [got EXCEPT !.res = "InvalidCommand"]
    ELSE
    CASE cmd = CmdStart ->
           [got EXCEPT !.streaming = TRUE, !.from_stream = from_entry]
      [] cmd = CmdStartBookmark ->
           [got EXCEPT !.streaming = TRUE]
      [] cmd = CmdStop ->
           [got EXCEPT !.streaming = FALSE]
      [] cmd = CmdHeader ->
           LET h == read_header_entry(s2) IN
           IF h.st # "Ok"
           THEN [got EXCEPT !.res = "Panic", !.used = re.used + h.used]
           ELSE [got EXCEPT !.used = re.used + h.used, !.header = h.val]
      [] cmd = CmdEntry ->
           LET e == read_data_entry(s2, self.checks) IN
           IF e.st # "Ok"
           THEN [got EXCEPT !.res = "Panic", !.used = re.used + e.used]
           ELSE IF e.val.entry_type = "NotFound"
           THEN [got EXCEPT !.res = "EntryNotFound", !.used = re.used + e.used,
                            !.decoded = e.val, !.got_entry = TRUE]
           ELSE [got EXCEPT !.used = re.used + e.used, !.entry = e.val,
                            !.decoded = e.val, !.got_entry = TRUE]
      [] cmd = CmdBookmark ->
           LET e == read_bookmark_entry(s2, self.checks) IN
           IF e.st # "Ok"
           THEN [got EXCEPT !.res = "Panic", !.used = re.used + e.used]
           ELSE IF e.val.entry_type = "NotFound"
           THEN [got EXCEPT !.res = "BookmarkNotFound", !.used = re.used + e.used,
                            !.decoded = e.val, !.got_entry = TRUE]
           ELSE [got EXCEPT !.used = re.used + e.used, !.entry = e.val,
                            !.decoded = e.val, !.got_entry = TRUE]

\* variant: the connected check is missing
exec_command_unguarded(self, cmd, from_entry, from_bookmark, s) ==
    exec_connected(self, cmd, from_entry, from_bookmark, s)

exec_command(self, cmd, from_entry, from_bookmark, s) ==
    IF ~self.connected
    THEN [CmdBase(self) EXCEPT !.res = "ClientNotStarted"]
    ELSE exec_connected(self, cmd, from_entry, from_bookmark, s)

(***************************************************************************)
(* The peer.  Frames it may send, laid out as the decoders read them.      *)
(***************************************************************************)
ResultFrame(code, text) ==
    <<PtResult>> \o to_be_bytes(FIXED_SIZE_RESULT_ENTRY + Len(text), 4) \o
    to_be_bytes(code, 4) \o text

HeaderFrame(entries) ==
    <<PtHeader>> \o to_be_bytes(HEADER_SIZE, 4) \o <<1>> \o to_be_bytes(1101, 8) \o
    to_be_bytes(Sequencer, 8) \o to_be_bytes(4096, 8) \o to_be_bytes(entries, 8)

DataFrame(packet, etype, number, data) ==
    <<packet>> \o to_be_bytes(FIXED_SIZE_FILE_ENTRY + Len(data), 4) \o etype \o
    to_be_bytes(number, 8) \o data

\* the server's ENTRY_TYPE_NOT_FOUND, u32::MAX
EtNotFound == <<255, 255, 255, 255>>

ResOk == ResultFrame(CmdErrOK, <<>>)
ResErr == ResultFrame(CmdErrBadFromEntry, <<69>>)
Hdr == HeaderFrame(1000)
RspEvent == DataFrame(PtDataRsp, to_be_bytes(1, 4), 5, <<171>>)
RspBookmark == DataFrame(PtDataRsp, to_be_bytes(176, 4), 0, <<>>)
RspNotFound == DataFrame(PtDataRsp, EtNotFound, 0, <<>>)
StreamData == DataFrame(PtData, to_be_bytes(2, 4), 6, <<1>>)
Pad == <<PtPadding>>
\* data frames sent without their packet-type byte
RawEvent == Drop(RspEvent, 1)
RawNotFound == Drop(RspNotFound, 1)

FrameMenu ==
    {ResOk, ResErr, Hdr, RspEvent, RspBookmark, RspNotFound, StreamData, Pad,
     RawEvent, RawNotFound}

\* the frames that follow an OK result frame
Payloads ==
    {Hdr, RspEvent, RspBookmark, RspNotFound, RawEvent, RawNotFound, StreamData}

\* what the peer may deliver in one go: nothing, one frame, an OK result and
\* what follows it, a header refresh and the next entry, and longer runs
Scripts ==
    {<<>>} \cup {<<f>> : f \in FrameMenu} \cup {<<ResOk, f>> : f \in Payloads}
    \cup {<<Hdr, StreamData>>}
    \cup {<<ResOk, Hdr, ResOk>>, <<ResOk, RspEvent, ResOk>>, <<ResErr, ResOk, Hdr>>,
          <<Hdr, StreamData, StreamData>>, <<ResOk, StreamData, Hdr>>}

\* the peer delivers the next run once the last one is read to its end
Incoming ==
    IF wire = <<>> THEN {inc \in Scripts : Len(inc) <= MaxWire} ELSE {<<>>}

\* the arguments the callers pass
Cursors == {0, 5}
Bookmarks == {to_be_bytes(0, 8), <<7>>}

\* the wire after k more bytes were read
RECURSIVE Adv(_, _)
Adv(w, k) ==
    IF w = <<>> THEN [wire |-> <<>>, off |-> 0]
    ELSE IF k >= Len(Head(w)) THEN Adv(Tail(w), k - Len(Head(w)))
    ELSE [wire |-> w, off |-> k]

\* the bytes the socket delivers once the peer sent inc
Avail(inc) == Drop(Flatten(wire \o inc), off)

(***************************************************************************)
(* The record of what the last handler did and returned, held until the    *)
(* caller has taken it (take); op = "none" when nothing is pending.        *)
(***************************************************************************)
OutBase ==
    [op |-> "none", res |-> "Ok", errcode |-> NoCode, tx |-> <<>>, used |-> 0,
     re |-> NoResult, got_re |-> FALSE, header |-> DefaultHeader,
     entry |-> DefaultEntry, decoded |-> DefaultEntry, got_entry |-> FALSE,
     from_entry |-> 0, from_bookmark |-> <<>>, avail |-> <<>>,
     packet |-> PtPadding, hooked |-> FALSE, ret |-> FALSE]

OutOf(op, r, from_entry, from_bookmark, s) ==
    [OutBase EXCEPT !.op = op, !.res = r.res, !.errcode = r.errcode, !.tx = r.tx,
                    !.used = r.used, !.re = r.re, !.got_re = r.got_re,
                    !.header = r.header, !.entry = r.entry, !.decoded = r.decoded,
                    !.got_entry = r.got_entry, !.from_entry = from_entry,
                    !.from_bookmark = from_bookmark, !.avail = s]

Init ==
    /\ conn = "None"
    /\ connected = FALSE
    /\ streaming = FALSE
    /\ started = FALSE
    /\ from_stream = 0
    /\ total_entries = 0
    /\ wire = <<>>
    /\ off = 0
    /\ pc = "idle"
    /\ caller = "api"
    /\ dials = 0
    /\ overflow_checks \in BOOLEAN
    /\ seen_header = 0
    /\ out = OutBase

(***************************************************************************)
(* The six command operations, called on an idle client.                   *)
(***************************************************************************)
Command(op, cmd, from_entry, from_bookmark, inc) ==
    /\ pc = "idle"
    /\ out.op = "none"
    /\ ~connected => inc = <<>>
    /\ \E s \in {Avail(inc)} :
       \E r \in {exec_command(Self, cmd, from_entry, from_bookmark, s)} :
       \E a \in {Adv(wire \o inc, off + r.used)} :
           /\ streaming' = r.streaming
           /\ from_stream' = r.from_stream
           /\ wire' = a.wire
           /\ off' = a.off
           /\ pc' = IF r.res = "Panic" THEN "aborted" ELSE "idle"
           /\ seen_header' = IF cmd = CmdHeader /\ r.res = "Ok"
                             THEN r.header.total_entries ELSE seen_header
           /\ out' = OutOf(op, r, from_entry, from_bookmark, s)
    /\ UNCHANGED <<conn, connected, started, total_entries, caller, dials,
                   overflow_checks>>

exec_command_start(from_entry, inc) ==
    Command("start", CmdStart, from_entry, <<>>, inc)

exec_command_start_bookmark(from_bookmark, inc) ==
    Command("start_bookmark", CmdStartBookmark, 0, from_bookmark, inc)

exec_command_stop(inc) ==
    Command("stop", CmdStop, 0, <<>>, inc)

exec_command_get_header(inc) ==
    Command("get_header", CmdHeader, 0, <<>>, inc)

exec_command_get_entry(from_entry, inc) ==
    Command("get_entry", CmdEntry, from_entry, <<>>, inc)

exec_command_get_bookmark(from_bookmark, inc) ==
    Command("get_bookmark", CmdBookmark, 0, from_bookmark, inc)

\* variant: closing also forgets the stream
close_connection_resets ==
    /\ pc = "idle"
    /\ out.op = "none"
    /\ connected' = FALSE
    /\ streaming' = FALSE
    /\ from_stream' = 0
    /\ out' = [OutBase EXCEPT !.op = "close_connection"]
    /\ UNCHANGED <<conn, started, total_entries, wire, off, pc, caller, dials,
                   overflow_checks, seen_header>>

\* variant: closing drops the socket and keeps the connected flag
close_connection_drops_socket ==
    /\ pc = "idle"
    /\ out.op = "none"
    /\ conn' = "None"
    /\ out' = [OutBase EXCEPT !.op = "close_connection"]
    /\ UNCHANGED <<connected, streaming, started, from_stream, total_entries, wire,
                   off, pc, caller, dials, overflow_checks, seen_header>>

close_connection ==
    /\ pc = "idle"
    /\ out.op = "none"
    /\ connected' = FALSE
    /\ out' = [OutBase EXCEPT !.op = "close_connection"]
    /\ UNCHANGED <<conn, streaming, started, from_stream, total_entries, wire, off,
                   pc, caller, dials, overflow_checks, seen_header>>

(***************************************************************************)
(* connect_server: the dial loop.  Enter is the call; every turn of the    *)
(* loop is one dial, which fails (dial_fail) or succeeds (dial_ok).        *)
(***************************************************************************)
Enter(who) ==
    /\ pc = "idle"
    /\ out.op = "none"
    /\ IF connected
       THEN /\ pc' = IF who = "start" THEN "start_header" ELSE "idle"
            /\ out' = [OutBase EXCEPT !.op = "connect_server"]
            /\ UNCHANGED <<caller, dials>>
       ELSE /\ pc' = "connecting"
            /\ caller' = who
            /\ dials' = 0
            /\ UNCHANGED out
    /\ UNCHANGED <<conn, connected, streaming, started, from_stream, total_entries,
                   wire, off, overflow_checks, seen_header>>

connect_server == Enter("api")

start == Enter("start")

\* a dial loop that stops at the first failed dial
dial_fail_gives_up ==
    /\ pc = "connecting"
    /\ out.op = "none"
    /\ dials < MaxDialFails
    /\ dials' = dials + 1
    /\ pc' = IF caller = "start" THEN "start_header" ELSE "idle"
    /\ out' = [OutBase EXCEPT !.op = "connect_server"]
    /\ UNCHANGED <<conn, connected, streaming, started, from_stream, total_entries,
                   wire, off, caller, overflow_checks, seen_header>>

\* TcpStream::connect fails: log, sleep, dial again
dial_fail ==
    /\ pc = "connecting"
    /\ out.op = "none"
    /\ dials < MaxDialFails
    /\ dials' = dials + 1
    /\ UNCHANGED <<out, conn, connected, streaming, started, from_stream, total_entries,
                   wire, off, pc, caller, overflow_checks, seen_header>>

\* the session right after a successful dial
Dialed == [Self EXCEPT !.conn = "Some", !.connected = TRUE]

\* variant: start() goes from the dial straight to the start command
Returned_skips_header == IF caller = "start" THEN "start_start" ELSE "idle"

Returned == IF caller = "start" THEN "start_header" ELSE "idle"

\* variant: a rejected resume is taken for a restored stream
resume_rejected_returns(o) ==
    /\ connected' = TRUE
    /\ pc' = Returned
    /\ out' = [o EXCEPT !.ret = TRUE]
    /\ UNCHANGED <<streaming, from_stream>>

\* the resume failed: close_connection, sleep, streaming = false, continue
resume_rejected(o) ==
    /\ connected' = FALSE
    /\ streaming' = FALSE
    /\ pc' = "connecting"
    /\ out' = o
    /\ UNCHANGED from_stream

dial_ok(inc, addr_ok) ==
    /\ pc = "connecting"
    /\ out.op = "none"
    /\ conn' = "Some"
    /\ IF ~addr_ok
       THEN \* local_addr()? fails: connect_server returns the error
            /\ inc = <<>>
            /\ connected' = TRUE
            /\ wire' = <<>> /\ off' = 0
            /\ pc' = "idle"
            /\ out' = [OutBase EXCEPT !.op = "dial_ok", !.res = "Err"]
            /\ UNCHANGED <<streaming, from_stream>>
       ELSE IF streaming
       THEN \E s \in {Flatten(inc)} :
            \E r \in {exec_command(Dialed, CmdStart, 0, <<>>, s)} :
            \E a \in {Adv(inc, r.used)} :
            \E o \in {OutOf("dial_ok", r, 0, <<>>, s)} :
                /\ wire' = a.wire /\ off' = a.off
                /\ CASE r.res = "Ok" ->
                          /\ connected' = TRUE
                          /\ streaming' = r.streaming
                          /\ from_stream' = r.from_stream
                          /\ pc' = Returned
                          /\ out' = [o EXCEPT !.ret = TRUE]
                     [] r.res = "Panic" ->
                          /\ connected' = TRUE
                          /\ pc' = "aborted"
                          /\ out' = o
                          /\ UNCHANGED <<streaming, from_stream>>
                     [] OTHER -> resume_rejected(o)
       ELSE /\ inc = <<>>
            /\ connected' = TRUE
            /\ wire' = <<>> /\ off' = 0
            /\ pc' = Returned
            /\ out' = [OutBase EXCEPT !.op = "dial_ok"]
            /\ UNCHANGED <<streaming, from_stream>>
    /\ UNCHANGED <<started, total_entries, caller, dials, overflow_checks,
                   seen_header>>

(***************************************************************************)
(* start(), after connect_server returned Ok: the header query, the start  *)
(* command, then read_entries for ever.                                    *)
(***************************************************************************)
start_get_header(inc) ==
    /\ pc = "start_header"
    /\ out.op = "none"
    /\ \E s \in {Avail(inc)} :
       \E r \in {exec_command(Self, CmdHeader, 0, <<>>, s)} :
       \E a \in {Adv(wire \o inc, off + r.used)} :
           /\ wire' = a.wire /\ off' = a.off
           /\ total_entries' = IF r.res = "Ok" THEN r.header.total_entries
                               ELSE total_entries
           /\ seen_header' = IF r.res = "Ok" THEN r.header.total_entries
                             ELSE seen_header
           /\ pc' = CASE r.res = "Ok" -> "start_start"
                      [] r.res = "Panic" -> "aborted"
                      [] OTHER -> "idle"
           /\ out' = OutOf("start_get_header", r, 0, <<>>, s)
    /\ UNCHANGED <<conn, connected, streaming, started, from_stream, caller, dials,
                   overflow_checks>>

start_exec_start(inc) ==
    /\ pc = "start_start"
    /\ out.op = "none"
    /\ \E s \in {Avail(inc)} :
       \E r \in {exec_command(Self, CmdStart, 0, <<>>, s)} :
       \E a \in {Adv(wire \o inc, off + r.used)} :
           /\ wire' = a.wire /\ off' = a.off
           /\ streaming' = r.streaming
           /\ from_stream' = r.from_stream
           /\ started' = IF r.res = "Ok" THEN TRUE ELSE started
           /\ pc' = CASE r.res = "Ok" -> "streaming"
                      [] r.res = "Panic" -> "aborted"
                      [] OTHER -> "idle"
           /\ out' = OutOf("start_exec_start", r, 0, <<>>, s)
    /\ UNCHANGED <<conn, connected, total_entries, caller, dials, overflow_checks,
                   seen_header>>

(***************************************************************************)
(* The streaming read loop: one call of read_entries.                      *)
(***************************************************************************)
ReadBase ==
    [res |-> "Ok", used |-> 0, packet |-> PtPadding, header |-> DefaultHeader,
     got_header |-> FALSE, decoded |-> DefaultEntry, hooked |-> FALSE]

read_entries_body(self, s) ==
    IF self.conn = "None" \/ Len(s) < 1
    THEN [ReadBase EXCEPT !.res = "Panic"]
    ELSE
    LET p    == PacketTypeFrom(s[1])
        rest == Drop(s, 1)
        one  == [ReadBase EXCEPT !.used = 1, !.packet = p]
    IN
    CASE p = PtHeader ->
           LET h == read_header_entry(rest) IN
           IF h.st # "Ok"
           THEN [one EXCEPT !.res = "Panic", !.used = 1 + h.used]
           ELSE [one EXCEPT !.used = 1 + h.used, !.header = h.val,
                            !.got_header = TRUE]
      [] p = PtData ->
           LET e == read_data_entry(rest, self.checks) IN
           IF e.st # "Ok"
           THEN [one EXCEPT !.res = "Panic", !.used = 1 + e.used]
           ELSE [one EXCEPT !.used = 1 + e.used, !.decoded = e.val,
                            !.hooked = TRUE]
      [] OTHER -> one

read_entries(inc) ==
    /\ pc = "streaming"
    /\ out.op = "none"
    /\ \E s \in {Avail(inc)} :
       \E r \in {read_entries_body(Self, s)} :
       \E a \in {Adv(wire \o inc, off + r.used)} :
           /\ wire' = a.wire /\ off' = a.off
           /\ pc' = IF r.res = "Panic" THEN "aborted" ELSE "streaming"
           /\ seen_header' = IF r.got_header THEN r.header.total_entries
                             ELSE seen_header
           /\ out' = [OutBase EXCEPT !.op = "read_entries", !.res = r.res,
                                     !.used = r.used, !.packet = r.packet,
                                     !.header = r.header, !.decoded = r.decoded,
                                     !.got_entry = r.hooked, !.hooked = r.hooked,
                                     !.avail = s]
    /\ UNCHANGED <<conn, connected, streaming, started, from_stream, total_entries,
                   caller, dials, overflow_checks>>

\* the caller takes the result of the last handler
take ==
    /\ out.op # "none"
    /\ out' = OutBase
    /\ UNCHANGED <<conn, connected, streaming, started, from_stream, total_entries,
                   wire, off, pc, caller, dials, overflow_checks, seen_header>>

IncomingFresh == {inc \in Scripts : Len(inc) <= MaxWire}

Next ==
    \/ \E n \in Cursors, inc \in Incoming : exec_command_start(n, inc)
    \/ \E b \in Bookmarks, inc \in Incoming : exec_command_start_bookmark(b, inc)
    \/ \E inc \in Incoming : exec_command_stop(inc)
    \/ \E inc \in Incoming : exec_command_get_header(inc)
    \/ \E n \in Cursors, inc \in Incoming : exec_command_get_entry(n, inc)
    \/ \E b \in Bookmarks, inc \in Incoming : exec_command_get_bookmark(b, inc)
    \/ close_connection
    \/ connect_server
    \/ start
    \/ dial_fail
    \/ \E inc \in IncomingFresh, ok \in BOOLEAN : dial_ok(inc, ok)
    \/ \E inc \in Incoming : start_get_header(inc)
    \/ \E inc \in Incoming : start_exec_start(inc)
    \/ \E inc \in Incoming : read_entries(inc)
    \/ take

Spec == Init /\ [][Next]_vars

\* The server eventually accepts a dial (the loop of connect_server dials again
\* after every failure, so a dial is always pending while it runs), and the
\* caller of a handler eventually takes what it returned.
LiveSpec ==
    /\ Init /\ [][Next]_vars
    /\ WF_vars(\E inc \in IncomingFresh, ok \in BOOLEAN : dial_ok(inc, ok))
    /\ WF_vars(take)

\* everything but the record of the last call
Session ==
    <<conn, connected, streaming, started, from_stream, total_entries, wire, off,
      pc, caller, dials, overflow_checks, seen_header>>

(***************************************************************************)
(* The codec on its own: the decoders, the socket readers and the code      *)
(* conversions applied to buffers and codes of every shape.  The buffer is  *)
(* what the peer sent (wire holds it whole); out records the call.          *)
(***************************************************************************)
MaxPayload == 2

\* declared lengths: below, at and above both fixed sizes
Lengths == {0, 8, 9, 10, 11, 16, 17, 18, 19, 25, 30}

Filler(n, byte) == [i \in 1..n |-> byte]

EntryBuf(L, n) ==
    <<PtData>> \o to_be_bytes(L, 4) \o to_be_bytes(1, 4) \o to_be_bytes(6, 8) \o
    Filler(n, 170)

ResultBuf(L, n) ==
    <<PtResult>> \o to_be_bytes(L, 4) \o to_be_bytes(CmdErrBadFromEntry, 4) \o
    Filler(n, 69)

Buffers ==
    LET whole == {EntryBuf(L, n) : L \in Lengths, n \in 0..MaxPayload}
                 \cup {EntryBuf(25, 8), EntryBuf(30, 8)}
                 \cup {ResultBuf(L, n) : L \in Lengths, n \in 0..MaxPayload}
    IN  whole \cup {Take(EntryBuf(17, 0), k) : k \in {0, 4, 8, 9, 16}}

EntryCodes == {0, 1, 2, 3, 175, 176, 177, 255, 256, Big}

PacketCodes == 0..255

StreamCodes == {0, 1, 2, 7, Big}

CodecInit ==
    /\ conn = "None"
    /\ connected = FALSE
    /\ streaming = FALSE
    /\ started = FALSE
    /\ from_stream = 0
    /\ total_entries = 0
    /\ wire \in {<<b>> : b \in Buffers}
    /\ off = 0
    /\ pc = "codec"
    /\ caller = "api"
    /\ dials = 0
    /\ overflow_checks \in BOOLEAN
    /\ seen_header = 0
    /\ out = OutBase

Codec(o) ==
    /\ pc = "codec"
    /\ out' = [o EXCEPT !.avail = Head(wire)]
    /\ UNCHANGED Session

decode_entry ==
    /\ out.op = "none"
    /\ \E r \in {decode_binary_to_entry(Head(wire), overflow_checks)} :
        Codec([OutBase EXCEPT !.op = "decode_binary_to_entry", !.res = r.st,
                              !.decoded = r.val])

\* read_data_entry is called with the packet-type byte already read
read_entry ==
    /\ out.op = "none"
    /\ \E r \in {read_data_entry(Drop(Head(wire), 1), overflow_checks)} :
        Codec([OutBase EXCEPT !.op = "read_data_entry", !.res = r.st,
                              !.used = r.used, !.decoded = r.val])

decode_result ==
    /\ out.op = "none"
    /\ \E r \in {decode_binary_to_result_entry(Head(wire))} :
        Codec([OutBase EXCEPT !.op = "decode_binary_to_result_entry",
                              !.res = r.st, !.re = r.val])

read_result ==
    /\ out.op = "none"
    /\ \E r \in {read_result_entry(Head(wire))} :
        Codec([OutBase EXCEPT !.op = "read_result_entry", !.res = r.st,
                              !.used = r.used, !.re = r.val])

server_decode_result ==
    /\ out.op = "none"
    /\ \E r \in {from_bytes(Head(wire), overflow_checks)} :
        Codec([OutBase EXCEPT !.op = "from_bytes", !.res = r.st, !.re = r.val])

entry_type_from(v) ==
    /\ out.op = "none"
    /\ Codec([OutBase EXCEPT !.op = "EntryTypeFrom", !.from_entry = v,
                          !.entry = [DefaultEntry EXCEPT
                                         !.entry_type = EntryTypeFrom(v)]])

packet_type_from(v) ==
    /\ out.op = "none"
    /\ Codec([OutBase EXCEPT !.op = "PacketTypeFrom", !.from_entry = v,
                          !.packet = PacketTypeFrom(v)])

stream_type_from(v) ==
    /\ out.op = "none"
    /\ Codec([OutBase EXCEPT !.op = "StreamTypeFrom", !.from_entry = v,
                          !.header = [DefaultHeader EXCEPT
                                          !.stream_type = StreamTypeFrom(v)]])

\* one turn of the streaming loop on a socket that delivers the byte v and
\* then the buffer
read_packet(v) ==
    /\ out.op = "none"
    /\ \E r \in {read_entries_body(Dialed, <<v>> \o Head(wire))} :
        Codec([OutBase EXCEPT !.op = "read_entries_body", !.from_entry = v,
                              !.res = r.res, !.used = r.used,
                              !.packet = r.packet, !.hooked = r.hooked,
                              !.decoded = r.decoded])

CodecNext ==
    \/ decode_entry
    \/ read_entry
    \/ decode_result
    \/ read_result
    \/ server_decode_result
    \/ \E v \in EntryCodes : entry_type_from(v)
    \/ \E v \in PacketCodes : packet_type_from(v)
    \/ \E v \in StreamCodes : stream_type_from(v)
    \/ \E v \in PacketCodes : read_packet(v)

CodecSpec == CodecInit /\ [][CodecNext]_vars

(***************************************************************************)
(* Claims.                                                                 *)
(***************************************************************************)
CmdOps == {"start", "start_bookmark", "stop", "get_header", "get_entry", "get_bookmark"}

IsPrefix(p, s) == Len(s) >= Len(p) /\ SubSeq(s, 1, Len(p)) = p

\* C1: when connect_server re-establishes the connection of a session that is
\* streaming, the command it writes on the new socket is CmdStart carrying the
\* cursor from_stream of the last acknowledged start command.
C1_ResumeCarriesCursor ==
    [][(pc = "connecting" /\ streaming /\ out.op = "none"
        /\ out'.op = "dial_ok" /\ out'.res # "Err")
       => out'.tx = CommandRequest(CmdStart, from_stream, <<>>)]_vars

\* C2: a read failure in the streaming read loop does not terminate the client
\* and leaves the session disconnected (so that it can dial again).
C2_ReadFailureDisconnects ==
    (out.op = "read_entries" /\ out.res # "Ok")
        => (pc # "aborted" /\ ~connected)

\* C3: each of the six command operations called while connected = false returns
\* the not-connected error, writes and reads no byte, and leaves streaming,
\* from_stream and total_entries (and the socket) as they were.
C3_NotConnected ==
    [][(out.op = "none" /\ out'.op \in CmdOps /\ ~connected)
       => /\ out'.res = "ClientNotStarted"
          /\ out'.tx = <<>>
          /\ out'.used = 0
          /\ UNCHANGED <<streaming, from_stream, total_entries, wire, off>>]_vars

C3_Witness ==
    /\ out.op = "get_bookmark"
    /\ out.res = "ClientNotStarted"
    /\ conn = "Some"
    /\ streaming

\* C4: when the result frame carries an error code c # 0, the command fails with
\* an error that carries that code c, and nothing is read past the result frame.
C4_RejectedCarriesCode ==
    (out.got_re /\ out.re.error_num # CmdErrOK)
        => /\ out.res = "InvalidCommand"
           /\ out.errcode = out.re.error_num
           /\ out.used = out.re.length

\* C5: an acknowledged start(N) or start_from_bookmark(b) sets streaming and
\* records in from_stream the cursor passed with that command; an acknowledged
\* stop clears streaming; none of the three reads past the result frame.
C5_StartRecordsCursor ==
    [][(out.op = "none" /\ out'.op \in {"start", "start_bookmark", "stop"}
        /\ out'.res = "Ok")
       => /\ streaming' = (out'.op # "stop")
          /\ out'.op # "stop" => from_stream' = out'.from_entry
          /\ out'.used = out'.re.length]_vars

\* C6: the cached total_entries is the total_entries of the last Header frame
\* decoded in the session (0 when none was decoded yet).
C6_CachedTotalEntries == total_entries = seen_header

\* C7: for get_entry and get_bookmark, once the result frame is OK and the
\* follow-up data frame is decoded: an entry-type code outside {0xb0, 1, 2} gives
\* EntryNotFound / BookmarkNotFound and no Entry; a code in {0xb0, 1, 2} gives the
\* decoded Entry, with the entry type of that code.
EntryTypeCode ==
    LET k == out.re.length + (IF out.op = "get_bookmark" THEN 1 ELSE 0)
    IN  read_uint(SubSeq(out.avail, k + 5, k + 8))

C7_NotFoundInPayload ==
    (out.op \in {"get_entry", "get_bookmark"} /\ out.got_entry)
        => IF EntryTypeCode \notin {176, 1, 2}
           THEN /\ out.res = (IF out.op = "get_entry" THEN "EntryNotFound"
                              ELSE "BookmarkNotFound")
                /\ out.entry = DefaultEntry
           ELSE /\ out.res = "Ok"
                /\ out.entry = out.decoded
                /\ out.entry.entry_type =
                       (CASE EntryTypeCode = 176 -> "Bookmark"
                          [] EntryTypeCode = 1 -> "Event1"
                          [] EntryTypeCode = 2 -> "Event2")

C7_Witness ==
    /\ out.op = "get_bookmark"
    /\ out.res = "BookmarkNotFound"
    /\ EntryTypeCode = Big

\* C8: get_entry(n) answered by an OK result frame and a well-formed
\* data-response frame for entry n returns an Entry with number n and the payload
\* sent, and reads exactly those two frames.
DataResponse(n) == DataFrame(PtDataRsp, to_be_bytes(1, 4), n, <<171>>)

C8_GetEntryReturnsEntry ==
    (out.op = "get_entry" /\ connected
     /\ IsPrefix(ResOk \o DataResponse(out.from_entry), out.avail))
        => /\ out.res = "Ok"
           /\ out.entry.number = out.from_entry
           /\ out.entry.data = <<171>>
           /\ out.used = Len(ResOk) + Len(DataResponse(out.from_entry))

\* C9: get_bookmark answered by an OK result frame and a well-formed
\* data-response frame of entry type Bookmark returns an Entry of type Bookmark
\* and reads exactly the result frame and the L bytes of the data frame.
BookmarkAnswer ==
    LET k    == out.re.length
        rest == Drop(out.avail, k)
    IN  /\ out.got_re /\ out.re.error_num = CmdErrOK
        /\ Len(rest) >= FIXED_SIZE_FILE_ENTRY
        /\ rest[1] = PtDataRsp
        /\ read_uint(SubSeq(rest, 2, 5)) >= FIXED_SIZE_FILE_ENTRY
        /\ read_uint(SubSeq(rest, 2, 5)) <= Len(rest)
        /\ read_uint(SubSeq(rest, 6, 9)) = 176

C9_GetBookmarkReturnsBookmark ==
    (out.op = "get_bookmark" /\ connected /\ BookmarkAnswer)
        => LET k    == out.re.length
               rest == Drop(out.avail, k)
               L    == read_uint(SubSeq(rest, 2, 5))
           IN  /\ out.res = "Ok"
               /\ out.entry.entry_type = "Bookmark"
               /\ out.entry.number = read_uint(SubSeq(rest, 10, 17))
               /\ out.entry.data = SubSeq(rest, 18, L)
               /\ out.used = k + 1 + (L - 1)
               /\ off = 0

C9_Witness ==
    /\ out.op = "get_bookmark"
    /\ out.res = "Ok"
    /\ out.entry.entry_type = "Bookmark"
    /\ out.used = Len(ResOk) + Len(RspBookmark)

\* C10: connect_server dials again after every failed dial, whatever the number
\* of failures so far; when it returns, connected = true and a socket is present;
\* and, if the server eventually accepts a dial, the call eventually returns
\* (or the process ends in the panic of a resume whose answer cannot be read,
\* which is a resume neither accepted nor cleared).
ConnectReturned ==
    \/ out.op = "connect_server"
    \/ out.op = "dial_ok" /\ pc \notin {"connecting", "aborted"}

C10_ConnectRetriesUntilConnected ==
    /\ [](ConnectReturned => (connected /\ conn = "Some"))
    /\ [][(pc = "connecting" /\ dials' # dials)
           => (pc' = "connecting" /\ ~connected' /\ out' = out)]_vars
    /\ ((pc = "connecting") ~> (ConnectReturned \/ pc = "aborted"))

C10_Witness ==
    /\ out.op = "dial_ok"
    /\ out.res = "Ok"
    /\ out.ret
    /\ pc = "start_header"
    /\ dials = MaxDialFails
    /\ connected

\* C11: when the start command that connect_server re-issues after a dial is
\* rejected, the session is left disconnected with streaming cleared and the
\* dial loop still running; the dial that succeeds while streaming is clear
\* writes no command and returns reporting that streaming was not restored.
C11_RejectedResumeClearsStreaming ==
    [][(pc = "connecting" /\ out.op = "none" /\ out'.op = "dial_ok")
       => /\ (streaming /\ out'.res = "InvalidCommand")
                => /\ ~connected' /\ ~streaming'
                   /\ pc' = "connecting"
          /\ (~streaming /\ out'.res = "Ok")
                => /\ out'.tx = <<>> /\ out'.used = 0
                   /\ ~out'.ret
                   /\ connected' /\ ~streaming'
                   /\ pc' = Returned]_vars

C11_Witness ==
    /\ out.op = "dial_ok"
    /\ out.res = "InvalidCommand"
    /\ out.tx = CommandRequest(CmdStart, 0, <<>>)
    /\ pc = "connecting"
    /\ ~connected /\ ~streaming
    /\ conn = "Some"

\* C12: close_connection always ends with connected = false and never changes
\* streaming, from_stream or total_entries; on a session that is already
\* disconnected it changes nothing at all, so a second call in a row leaves the
\* state of the first.
C12_CloseIdempotent ==
    [][(out.op = "none" /\ out'.op = "close_connection")
       => /\ ~connected'
          /\ UNCHANGED <<streaming, from_stream, total_entries>>
          /\ ~connected => UNCHANGED Session]_vars

C12_Witness ==
    /\ out.op = "close_connection"
    /\ ~connected
    /\ conn = "Some"
    /\ streaming
    /\ from_stream = 5

\* C13: in the streaming loop, a turn that starts at a frame boundary on a
\* well-formed frame reads exactly that frame and goes on (so the frames are
\* handled one by one, in the order sent); it invokes the entry callback when
\* and only when the frame is a Data frame, with the number and payload of that
\* frame.
WellFormed == {Hdr, StreamData, Pad, RspEvent, RspBookmark, RspNotFound, ResOk, ResErr}

FrameNumber(f) == read_uint(SubSeq(f, 10, 17))

FramePayload(f) == SubSeq(f, 18, Len(f))

C13_CallbackOncePerDataFrame ==
    [][(pc = "streaming" /\ off = 0 /\ out.op = "none"
        /\ out'.op = "read_entries")
       => \A f \in WellFormed :
            IsPrefix(f, out'.avail)
                => /\ out'.res = "Ok"
                   /\ pc' = "streaming"
                   /\ out'.used = Len(f)
                   /\ out'.hooked <=> (f[1] = PtData)
                   /\ out'.hooked => /\ out'.decoded.number = FrameNumber(f)
                                     /\ out'.decoded.data = FramePayload(f)]_vars

\* C14: in the streaming loop, a turn that starts at a frame boundary on a
\* Header frame followed by further frames reads the 38 bytes of the Header frame,
\* packet-type byte included, decodes the header sent, and leaves the socket on
\* the packet-type byte of the frame that follows.
C14_HeaderConsumes38 ==
    [][(pc = "streaming" /\ off = 0 /\ out.op = "none"
        /\ out'.op = "read_entries"
        /\ IsPrefix(Hdr, out'.avail) /\ Len(out'.avail) > HEADER_SIZE)
       => /\ out'.res = "Ok"
          /\ out'.used = HEADER_SIZE
          /\ out'.header.total_entries = 1000
          /\ Drop(out'.avail, out'.used)[1] = out'.avail[HEADER_SIZE + 1]]_vars

\* C15: in the streaming loop, while the socket is on a well-formed DataResponse
\* (0xfe) or Result (0xff) frame, at its first byte or within it, a turn of the
\* loop neither ends the loop nor invokes the entry callback nor takes a byte of
\* that frame for the start of a Header or Data frame, and it leaves streaming,
\* from_stream and total_entries alone.
Unsolicited == {RspEvent, RspBookmark, RspNotFound, ResOk, ResErr}

OnUnsolicited ==
    \/ off = 0 /\ \E f \in Unsolicited : IsPrefix(f, out'.avail)
    \/ off > 0 /\ wire # <<>> /\ Head(wire) \in Unsolicited

C15_UnsolicitedFramesTolerated ==
    [][(pc = "streaming" /\ out.op = "none" /\ out'.op = "read_entries"
        /\ OnUnsolicited)
       => /\ out'.res = "Ok"
          /\ pc' = "streaming"
          /\ ~out'.hooked
          /\ out'.packet \notin {PtHeader, PtData}
          /\ UNCHANGED <<streaming, from_stream, total_entries>>]_vars

\* C16: entry decoding fails (an error is returned: no value, no abort) on every
\* buffer shorter than 17 bytes and on every buffer whose declared length is not
\* 17 + the payload bytes present, declared lengths below 17 included, and
\* returns the entry exactly when the declared length is 17 + the payload
\* length; the same on the socket, where read_data_entry takes the declared
\* number of bytes.
DeclaredLength == read_uint(SubSeq(out.avail, 2, 5))

C16_EntryDecodeLengthChecks ==
    /\ out.op = "decode_binary_to_entry"
          => IF Len(out.avail) >= FIXED_SIZE_FILE_ENTRY
                /\ DeclaredLength = Len(out.avail)
             THEN /\ out.res = "Ok"
                  /\ out.decoded.length = DeclaredLength
                  /\ out.decoded.number = FrameNumber(out.avail)
                  /\ out.decoded.data = FramePayload(out.avail)
             ELSE out.res = "Err"
    /\ out.op = "read_data_entry"
          => IF Len(out.avail) >= FIXED_SIZE_FILE_ENTRY
                /\ DeclaredLength >= FIXED_SIZE_FILE_ENTRY
                /\ DeclaredLength <= Len(out.avail)
             THEN /\ out.res = "Ok"
                  /\ out.used = DeclaredLength - 1
                  /\ out.decoded.data =
                         SubSeq(out.avail, FIXED_SIZE_FILE_ENTRY + 1, DeclaredLength)
             ELSE out.res = "Err"

\* C17: result-frame decoding fails (an error is returned) on every buffer
\* shorter than 9 bytes and on every buffer whose declared length is not 9 + the
\* error-text bytes present, declared lengths below 9 included; otherwise it
\* returns the packet type, the length, the error code and the error text of
\* the frame.  On the socket read_result_entry takes the declared number of
\* bytes.
ResultOf(b) ==
    [packet_type |-> b[1],
     length      |-> read_uint(SubSeq(b, 2, 5)),
     error_num   |-> read_uint(SubSeq(b, 6, 9)),
     error_str   |-> SubSeq(b, 10, read_uint(SubSeq(b, 2, 5)))]

C17_ResultDecodeLengthChecks ==
    /\ out.op \in {"decode_binary_to_result_entry", "from_bytes"}
          => IF Len(out.avail) >= FIXED_SIZE_RESULT_ENTRY
                /\ DeclaredLength = Len(out.avail)
             THEN out.res = "Ok" /\ out.re = ResultOf(out.avail)
             ELSE out.res = "Err"
    /\ out.op = "read_result_entry"
          => IF Len(out.avail) >= FIXED_SIZE_RESULT_ENTRY
                /\ DeclaredLength >= FIXED_SIZE_RESULT_ENTRY
                /\ DeclaredLength <= Len(out.avail)
             THEN /\ out.res = "Ok" /\ out.re = ResultOf(out.avail)
                  /\ out.used = DeclaredLength
             ELSE out.res = "Err"

\* C18: the conversions from codes are total.  A u32 outside {0, 1, 2, 0xb0}
\* gives EntryType NotFound, a u8 outside {0, 1, 2, 0xfe, 0xff} gives PacketType
\* Padding, every u64 gives StreamType Sequencer, and a known code gives its own
\* variant; a turn of the streaming loop that reads an unknown byte takes that
\* one byte, invokes no callback and goes on.
KnownPackets == {PtPadding, PtHeader, PtData, PtDataRsp, PtResult}

C18_ConversionsTotal ==
    /\ out.op = "EntryTypeFrom"
          => out.entry.entry_type =
                 (CASE out.from_entry = 176 -> "Bookmark"
                    [] out.from_entry = 1 -> "Event1"
                    [] out.from_entry = 2 -> "Event2"
                    [] OTHER -> "NotFound")
    /\ out.op = "PacketTypeFrom"
          => out.packet = (IF out.from_entry \in KnownPackets
                           THEN out.from_entry ELSE PtPadding)
    /\ out.op = "StreamTypeFrom" => out.header.stream_type = Sequencer
    /\ (out.op = "read_entries_body" /\ out.from_entry \notin KnownPackets)
          => /\ out.res = "Ok"
             /\ out.packet = PtPadding
             /\ out.used = 1
             /\ ~out.hooked

C18_Witness ==
    /\ out.op = "read_entries_body"
    /\ out.from_entry = 176
    /\ out.avail = EntryBuf(18, 1)
    /\ out.used = 1

\* C19: a command issued on a connected session writes, whatever the answer
\* (even when no byte of an answer can be read): the command id on 8 big-endian
\* bytes (1 Start, 2 Stop, 3 Header, 4 StartBookmark, 5 Entry, 6 Bookmark), the
\* stream type 1 on 8 big-endian bytes, then the entry number on 8 big-endian
\* bytes for Start and Entry, the bookmark length on 4 big-endian bytes and the
\* bookmark for StartBookmark and Bookmark, nothing for Stop and Header.
U64(n) == <<0, 0, 0, 0, 0, 0, 0, n>>

U32(n) == <<0, 0, 0, n>>

Issued ==
    \/ out.op \in CmdOps \cup {"start_get_header", "start_exec_start"}
    \/ out.op = "dial_ok" /\ out.tx # <<>>

OpCommand ==
    CASE out.op \in {"start", "start_exec_start", "dial_ok"} -> 1
      [] out.op = "stop" -> 2
      [] out.op \in {"get_header", "start_get_header"} -> 3
      [] out.op = "start_bookmark" -> 4
      [] out.op = "get_entry" -> 5
      [] out.op = "get_bookmark" -> 6

C19_RequestBytes ==
    (Issued /\ connected)
        => out.tx = U64(OpCommand) \o U64(1) \o
                    (CASE OpCommand \in {1, 5} -> U64(out.from_entry)
                       [] OpCommand \in {4, 6} ->
                              U32(Len(out.from_bookmark)) \o out.from_bookmark
                       [] OTHER -> <<>>)

C19_Witness ==
    /\ out.op = "start_bookmark"
    /\ connected
    /\ out.tx = <<0, 0, 0, 0, 0, 0, 0, 4, 0, 0, 0, 0, 0, 0, 0, 1, 0, 0, 0, 1, 7>>
    /\ out.res = "Panic"
    /\ out.used = 0

\* C20: a command that starts at a frame boundary and fails with the rejection
\* error, EntryNotFound or BookmarkNotFound leaves the session connected and
\* idle, leaves streaming, from_stream and total_entries as they were, and has
\* read whole frames, so that the socket is at a frame boundary for the next
\* command.
Refused == {"InvalidCommand", "EntryNotFound", "BookmarkNotFound"}

C20_RefusedCommandKeepsSession ==
    [][(out.op = "none" /\ out'.op \in CmdOps /\ out'.res \in Refused
        /\ off = 0)
       => /\ connected /\ connected'
          /\ pc' = "idle"
          /\ UNCHANGED <<conn, streaming, from_stream, total_entries>>
          /\ off' = 0
          /\ out'.used > 0
          /\ out'.tx # <<>>]_vars

C20_Witness ==
    /\ out.op = "start"
    /\ out.res = "InvalidCommand"
    /\ out.from_entry = 0
    /\ out.used = Len(ResErr)
    /\ connected /\ streaming /\ from_stream = 5
    /\ off = 0

\* C21: a command on a connected session whose answer cannot be read (the peer
\* closed the socket before a whole result frame arrived) does not terminate the
\* client: the command returns a network error and the session stays usable
\* for a reconnect.
C21_CommandReadFailureIsNetworkError ==
    (out.op \in CmdOps /\ connected
     /\ Len(out.avail) < FIXED_SIZE_RESULT_ENTRY)
        => /\ pc # "aborted"
           /\ out.res = "NetworkError"

\* C22: stopping the stream is cooperative.  While the streaming loop runs a
\* stop can be requested; once streaming is cleared the loop eventually exits,
\* and it exits at a frame boundary.
StopRequest == \E inc \in Incoming : exec_command_stop(inc)

C22_StopIsCooperative ==
    /\ []((pc = "streaming" /\ out.op = "none") => ENABLED StopRequest)
    /\ ((pc = "streaming" /\ ~streaming) ~> (pc = "idle" /\ off = 0))

\* C23: start() proceeds in order: the dial (until connected), the Header
\* command, the Start command with cursor 0, the streaming loop.  The Start
\* command is written only after the Header command was answered OK, the loop
\* reads only after the Start command was answered OK (started is set then),
\* and a rejected Header or Start command makes start() return with started
\* false and nothing read by the loop.
C23_StartSequence ==
    [][/\ (pc' = "start_header" /\ pc # "start_header")
            => /\ connected'
               /\ pc = "connecting" \/ (pc = "idle" /\ connected)
       /\ (pc' = "start_start" /\ pc # "start_start")
            => /\ pc = "start_header" /\ connected
               /\ out'.op = "start_get_header" /\ out'.res = "Ok"
               /\ out'.tx = U64(3) \o U64(1)
       /\ (pc' = "streaming" /\ pc # "streaming")
            => /\ pc = "start_start" /\ connected
               /\ out'.op = "start_exec_start" /\ out'.res = "Ok"
               /\ out'.tx = U64(1) \o U64(1) \o U64(0)
               /\ ~started /\ started'
       /\ (out.op = "none" /\ out'.op = "read_entries")
            => pc = "streaming" /\ started
       /\ (out.op = "none" /\ out'.op \in {"start_get_header", "start_exec_start"}
           /\ out'.res = "InvalidCommand")
            => /\ pc' = "idle"
               /\ ~started'
               /\ out'.used = out'.re.length]_vars

C23_Witness ==
    /\ out.op = "start_exec_start"
    /\ out.res = "InvalidCommand"
    /\ pc = "idle"
    /\ ~started
    /\ total_entries = 1000
    /\ connected

\* C24: the packet_type of a decoded Entry is the packet-type byte received
\* for its frame: 2 for an Entry the streaming loop hands to the callback, 0xfe
\* for an Entry returned by get_entry or get_bookmark.
C24_EntryKeepsPacketType ==
    /\ (out.op = "read_entries" /\ out.hooked)
          => /\ out.decoded.packet_type = out.avail[1]
             /\ out.decoded.packet_type = PtData
    /\ (out.op \in {"get_entry", "get_bookmark"} /\ out.res = "Ok")
          => out.entry.packet_type = PtDataRsp

\* C25: whenever connected is true, and whenever start() is past its dial, a
\* socket is present, so the unwrap of the socket in a command or in the
\* streaming read never meets None.
C25_ConnectedHasSocket ==
    (connected \/ pc \in {"start_header", "start_start", "streaming"})
        => conn = "Some"

C25_Witness ==
    /\ out.op = "get_header"
    /\ out.res = "Ok"
    /\ connected
    /\ conn = "Some"
    /\ dials > 0

====
